---------------------------- MODULE Spec2Model ----------------------------
(***************************************************************************)
(* TCP teardown exerciser: the server (src/src/main.rs, Server::run,       *)
(* Server::handle_conn, Server::drain), the client (Client::run,           *)
(* Client::single_run with its response-reader thread) and the buffered /  *)
(* unbuffered stream facade (src/src/maybe_buffered.rs), composed over a   *)
(* model of the TCP connections between them.                              *)
(*                                                                         *)
(* The wire carries bytes.  A connection c has a receive queue on each     *)
(* side (c2s[c] at the server, s2c[c] at the client).  A socket is closed  *)
(* when every handle onto it has been dropped.  Closing a socket whose     *)
(* receive queue still holds unread data, or sending to a closed socket,   *)
(* resets the connection (RST); a reset may or may not destroy the data    *)
(* already queued at the peer.  Once both sockets of a connection are      *)
(* closed the connection is gone, and what was recorded about it with it.  *)
(***************************************************************************)
EXTENDS Integers, Sequences, FiniteSets, TLC

\* ------------------------------------------------------------------ bounds
\* send_numbers_count (1 << 23 in the source), scaled down.
SendNumbersCount == 5
\* Largest value of Client::times explored.
MaxTimes == 2
\* Capacity in bytes of a socket receive queue.
ChanCap == 8
\* Capacity in bytes of the std BufReader / BufWriter (8 KiB in std).
BufCap == 8
\* Frames an arbitrary peer sends on its connection at most.
MaxPeerFrames == 3

\* --------------------------------------------------------------- constants
\* Length of the buffer handed to each read of Server::drain.
DrainBufLen == 32768
\* The odd number the client injects at the midpoint of its stream.
OddNumber == 23
\* Bytes in one frame (vec![0 as u8; 4]).
FrameLen == 4

Conns == 1..MaxTimes

TeardownModes ==
    {"CloseImmediately", "DrainThenClose", "ShutdownWriteThenDrain",
     "ShutdownWriteThenClose", "SleepThenClose", "ShutdownBothThenClose"}

ReadErrKinds == {"ConnectionReset", "UnexpectedEof"}
WriteErrKinds == {"ConnectionReset", "BrokenPipe"}

Min(a, b) == IF a < b THEN a ELSE b

Take(s, n) == SubSeq(s, 1, n)
Drop(s, n) == SubSeq(s, n + 1, Len(s))

\* BigEndian::write_u32
WriteU32(n) ==
    << (n \div 16777216) % 256, (n \div 65536) % 256, (n \div 256) % 256, n % 256 >>

\* BigEndian::read_u32
ReadU32(b) == b[1] * 16777216 + b[2] * 65536 + b[3] * 256 + b[4]

VARIABLES
    \* configuration (structopt fields)
    teardown_mode, srvBuffered, cliBuffered, times,
    \* network, per connection
    c2s, s2c, rstCli, rstSrv, srvShut,
    \* handles onto the sockets, per connection
    cliRead, cliWrite, srvRead, srvWrite,
    \* server
    srvPc, srvConn, srvRdBuf, srvBuf, bytecount, handled,
    \* client, calling context
    cliPc, runsDone, i, stop_sending, write_err, wrBuf, result, stats,
    \* client, response-reader thread
    rdPc, read_res,
    \* history of a connection (observations only; they guard nothing)
    wire, srvEchoed, srvDrained, srvReadsAfterEcho, aborted,
    \* history of a client run (observations only)
    sendsAfterStop, lastPoll, sentAfterErr

cfgVars == << teardown_mode, srvBuffered, cliBuffered, times >>
netVars == << c2s, s2c, rstCli, rstSrv, srvShut >>
hdlVars == << cliRead, cliWrite, srvRead, srvWrite >>
srvVars == << srvPc, srvConn, srvRdBuf, srvBuf, bytecount, handled >>
cliVars == << cliPc, runsDone, i, stop_sending, write_err, wrBuf, result, stats >>
rdVars == << rdPc, read_res >>
connHist == << wire, srvEchoed, srvDrained, srvReadsAfterEcho, aborted >>
runHist == << sendsAfterStop, lastPoll, sentAfterErr >>

vars == << cfgVars, netVars, hdlVars, srvVars, cliVars, rdVars, connHist, runHist >>


\* ---------------------------------------------------------- classification
NoErr == "none"

\* SingleRunResult: the variant, and the io::ErrorKind each variant carries.
SingleRunResults ==
    { [tag |-> "ResponseCorrect", read |-> NoErr, write |-> NoErr] }
    \cup { [tag |-> "ReadResponseError", read |-> r, write |-> NoErr] : r \in ReadErrKinds }
    \cup { [tag |-> "WriteNumberError", read |-> NoErr, write |-> w] : w \in WriteErrKinds }
    \cup { [tag |-> "BothErr", read |-> r, write |-> w] : r \in ReadErrKinds, w \in WriteErrKinds }

NoResult == [tag |-> "none", read |-> NoErr, write |-> NoErr]

ClassifyReadAsWrite(read_e, write_e) ==
    IF read_e = NoErr /\ write_e = NoErr
    THEN [tag |-> "ResponseCorrect", read |-> NoErr, write |-> NoErr]
    ELSE IF write_e = NoErr
    THEN [tag |-> "WriteNumberError", read |-> NoErr, write |-> read_e]
    ELSE IF read_e = NoErr
    THEN [tag |-> "WriteNumberError", read |-> NoErr, write |-> write_e]
    ELSE [tag |-> "BothErr", read |-> read_e, write |-> write_e]

ClassifySwapped(read_e, write_e) ==
    IF read_e = NoErr /\ write_e = NoErr
    THEN [tag |-> "ResponseCorrect", read |-> NoErr, write |-> NoErr]
    ELSE IF write_e = NoErr
    THEN [tag |-> "ReadResponseError", read |-> read_e, write |-> NoErr]
    ELSE IF read_e = NoErr
    THEN [tag |-> "WriteNumberError", read |-> NoErr, write |-> write_e]
    ELSE [tag |-> "BothErr", read |-> write_e, write |-> read_e]

\* match (read_err, write_err) at the end of Client::single_run
Classify(read_e, write_e) ==
    IF read_e = NoErr /\ write_e = NoErr
    THEN [tag |-> "ResponseCorrect", read |-> NoErr, write |-> NoErr]
    ELSE IF write_e = NoErr
    THEN [tag |-> "ReadResponseError", read |-> read_e, write |-> NoErr]
    ELSE IF read_e = NoErr
    THEN [tag |-> "WriteNumberError", read |-> NoErr, write |-> write_e]
    ELSE [tag |-> "BothErr", read |-> read_e, write |-> write_e]

StatsRecordOverwrite(st, res) == [st EXCEPT ![res] = 1]

\* let e = stats.entry(res).or_insert(0); *e += 1;   (an absent key counts 0)
StatsRecord(st, res) == [st EXCEPT ![res] = @ + 1]

RECURSIVE SumOver(_, _)
SumOver(f, S) ==
    IF S = {} THEN 0
    ELSE LET x == CHOOSE y \in S : TRUE IN f[x] + SumOver(f, S \ {x})

StatsTotal == SumOver(stats, SingleRunResults)

\* ------------------------------------------------------------- client data
NumberAtKeepsLowBit(idx) ==
    IF idx = SendNumbersCount \div 2 THEN OddNumber ELSE idx

\* The number the sender loop writes in iteration idx: 23 at the midpoint,
\* otherwise idx with its low bit cleared.
NumberAt(idx) ==
    IF idx = SendNumbersCount \div 2 THEN OddNumber ELSE idx - (idx % 2)

\* ------------------------------------------------------------ socket state
Established(c) == cliWrite[c] # "none"
Accepted(c) == srvRead[c] # "none"

\* Every client handle onto connection c has been dropped: the socket is closed.
CliSockClosed(c) == cliRead[c] = "closed" /\ cliWrite[c] = "closed"
\* Every server handle onto connection c has been dropped.
SrvSockClosed(c) == srvRead[c] = "closed" /\ srvWrite[c] = "closed"

\* The server's reads on c see end-of-stream once its queue is empty.
EofAtSrv(c) == CliSockClosed(c) \/ srvShut[c] = "both"
\* The client's reads on c see end-of-stream once its queue is empty.
EofAtCli(c) == SrvSockClosed(c) \/ srvShut[c] # "none"

None == [c \in Conns |-> "none"]

\* `listener` is a local of Server::run: it is bound once bind has succeeded
\* and is closed when run returns.
Listening == srvPc \notin {"bind", "bindfailed", "exited"}

\* Numbers an arbitrary peer sends: even and odd, with bytes that tell the
\* byte orders apart (16777216 = 01 00 00 00, 65537 = 00 01 00 01).
PeerNumbers == {0, 23, 16777216, 65537}

InitCommon ==
    /\ teardown_mode \in TeardownModes
    /\ srvBuffered \in BOOLEAN
    /\ cliBuffered \in BOOLEAN
    /\ times \in 1..MaxTimes
    /\ c2s = [c \in Conns |-> << >>]
    /\ s2c = [c \in Conns |-> << >>]
    /\ rstCli = [c \in Conns |-> FALSE]
    /\ rstSrv = [c \in Conns |-> FALSE]
    /\ srvShut = None
    /\ srvRead = None /\ srvWrite = None
    /\ srvConn = 0
    /\ srvRdBuf = << >>
    /\ srvBuf = << >>
    /\ bytecount = 0
    /\ handled = None
    /\ runsDone = 0
    /\ i = 0
    /\ stop_sending = FALSE
    /\ write_err = NoErr
    /\ wrBuf = << >>
    /\ result = NoResult
    /\ stats = [r \in SingleRunResults |-> 0]
    /\ rdPc = "none"
    /\ read_res = [ok |-> FALSE, val |-> 0, kind |-> NoErr]
    /\ aborted = [c \in Conns |-> FALSE]
    /\ wire = [c \in Conns |-> << >>]
    /\ srvEchoed = [c \in Conns |-> << >>]
    /\ srvDrained = [c \in Conns |-> -1]
    /\ srvReadsAfterEcho = [c \in Conns |-> 0]
    /\ sendsAfterStop = 0
    /\ lastPoll = "none"
    /\ sentAfterErr = FALSE

\* The server listens; the client has been started.
Init ==
    /\ InitCommon
    /\ srvPc = "accept"
    /\ cliPc = "loop"
    /\ cliRead = None /\ cliWrite = None

\* ------------------------------------------------------------------ server
\* Connection c is gone (`gone`): its flags and history return to their
\* initial values; otherwise they stay as they are, but for the reset flag
\* towards the client, which `reset` sets.
ForgetIf(f, c, gone, init) == IF gone THEN [f EXCEPT ![c] = init] ELSE f

ForgetHistory(c, gone) ==
    /\ wire' = ForgetIf(wire, c, gone, << >>)
    /\ srvEchoed' = ForgetIf(srvEchoed, c, gone, << >>)
    /\ srvDrained' = ForgetIf(srvDrained, c, gone, -1)
    /\ srvReadsAfterEcho' = ForgetIf(srvReadsAfterEcho, c, gone, 0)
    /\ aborted' = ForgetIf(aborted, c, gone, FALSE)

\* The server's socket of connection c goes away: its handles were dropped,
\* or the process exits (exiting), which also takes the listener and the
\* connections still waiting in its backlog.  Unread data in the receive
\* queue turns the close into a reset of the peer.
SrvSocketGone(c, exiting) ==
    LET gone == CliSockClosed(c)
        reset == [d \in Conns |->
                    \/ d = c /\ c2s[c] # << >> /\ ~gone
                    \/ exiting /\ d # c /\ Established(d) /\ ~Accepted(d) /\ ~CliSockClosed(d)]
    IN  /\ c2s' = [d \in Conns |-> IF d = c \/ reset[d] THEN << >> ELSE c2s[d]]
        /\ rstCli' = [d \in Conns |-> IF d = c /\ gone THEN FALSE ELSE rstCli[d] \/ reset[d]]
        /\ \E keep \in BOOLEAN :
              s2c' = [d \in Conns |-> IF reset[d] /\ ~keep THEN << >> ELSE s2c[d]]
        /\ rstSrv' = ForgetIf(rstSrv, c, gone, FALSE)
        /\ srvShut' = ForgetIf(srvShut, c, gone, "none")
        /\ ForgetHistory(c, gone)

HandleAfterReturnLeaky(path) == IF path = "ok" THEN "closed" ELSE "open"

\* State of a handle the handler owned once the handler has returned by
\* `path` ("ok": after drop(read); drop(write), "err": out of a `?`).  read and
\* write are owned parameters of handle_conn, so every return drops them.
HandleAfterReturn(path) == "closed"

\* Server::run after handle_conn returned: `self.handle_conn(read, write)?;`
\* goes round the loop on Ok and returns the error out of run on Err.
AfterHandler(path) == IF path = "ok" THEN "accept" ELSE "exited"

\* handle_conn returns by `path`.
HandlerReturn(c, path) ==
    /\ srvRead' = [srvRead EXCEPT ![c] = HandleAfterReturn(path)]
    /\ srvWrite' = [srvWrite EXCEPT ![c] = HandleAfterReturn(path)]
    /\ handled' = [handled EXCEPT ![c] = path]
    /\ srvPc' = AfterHandler(path)
    /\ SrvSocketGone(c, AfterHandler(path) = "exited")
    /\ srvRdBuf' = << >>
    /\ srvBuf' = << >>
    /\ bytecount' = 0
    /\ UNCHANGED << srvConn, cliRead, cliWrite >>

\* listener.incoming().next() returns a connection; split_tcp_stream clones
\* it into a read and a write handle and drops the original.
SrvAccept ==
    /\ srvPc = "accept"
    /\ srvConn + 1 \in Conns
    /\ LET c == srvConn + 1 IN
        /\ Established(c)
        /\ ~Accepted(c)
        /\ srvConn' = c
        /\ srvRead' = [srvRead EXCEPT ![c] = "open"]
        /\ srvWrite' = [srvWrite EXCEPT ![c] = "open"]
        /\ handled' = [handled EXCEPT ![c] = "running"]
    /\ srvPc' = "scan"
    /\ srvRdBuf' = << >>
    /\ srvBuf' = << >>
    /\ bytecount' = 0
    /\ UNCHANGED << cfgVars, netVars, cliRead, cliWrite, cliVars, rdVars, connHist, runHist >>

\* net::TcpListener::bind(&self.listen).context("bind")?: run goes on to the
\* accept loop, or returns the error (main prints it and the process ends).
SrvBind ==
    /\ srvPc = "bind"
    /\ srvPc' \in {"accept", "bindfailed"}
    /\ UNCHANGED << cfgVars, netVars, hdlVars, srvConn, srvRdBuf, srvBuf, bytecount,
                    handled, cliVars, rdVars, connHist, runHist >>

\* listener.incoming().next().unwrap() is an Err: the match takes its
\* `Err(e) => log::error!(..)` arm.  No connection is taken from the backlog.
SrvAcceptErr ==
    /\ srvPc = "accept"
    /\ srvPc' = "accepterr"
    /\ UNCHANGED << cfgVars, netVars, hdlVars, srvConn, srvRdBuf, srvBuf, bytecount,
                    handled, cliVars, rdVars, connHist, runHist >>

\* Where Server::run goes once the accept error has been logged.
AfterAcceptErr == "accept"

\* log::error!("accept error: {:?}", e), and round the loop.
SrvAcceptErrLogged ==
    /\ srvPc = "accepterr"
    /\ srvPc' = AfterAcceptErr
    /\ UNCHANGED << cfgVars, netVars, hdlVars, srvConn, srvRdBuf, srvBuf, bytecount,
                    handled, cliVars, rdVars, connHist, runHist >>

IsOddAlways(num) == TRUE

\* `if num % 2 == 0 { continue } else { ... }`
IsOdd(num) == num % 2 # 0

\* One read call of read.read_exact(&mut buf) while scanning, and, when it
\* completes the four bytes, the parity test on the number.  A BufReader
\* serves the call from its buffer, refilling the buffer with one read of the
\* socket of up to BufCap bytes when it is empty; an unbuffered reader reads
\* the missing bytes from the socket.  A read of zero bytes makes read_exact
\* fail (UnexpectedEof), as does a reset connection.
SrvScanRead ==
    /\ srvPc = "scan"
    /\ LET c == srvConn
           need == FrameLen - Len(srvBuf)
       IN
        \/ /\ srvRdBuf # << >> \/ c2s[c] # << >>
           /\ LET n == IF srvRdBuf # << >> THEN 0
                       ELSE Min(Len(c2s[c]), IF srvBuffered THEN BufCap ELSE need)
                  avail == IF srvRdBuf # << >> THEN srvRdBuf ELSE Take(c2s[c], n)
                  k == Min(need, Len(avail))
                  got == srvBuf \o Take(avail, k)
              IN
               /\ c2s' = [c2s EXCEPT ![c] = Drop(@, n)]
               /\ srvRdBuf' = Drop(avail, k)
               /\ IF Len(got) = FrameLen
                  THEN IF IsOdd(ReadU32(got))
                       THEN srvBuf' = got /\ srvPc' = "echo"
                       ELSE srvBuf' = << >> /\ srvPc' = "scan"
                  ELSE srvBuf' = got /\ srvPc' = "scan"
           /\ UNCHANGED << s2c, rstCli, rstSrv, srvShut, hdlVars, srvConn, bytecount, handled,
                           connHist >>
        \/ /\ srvRdBuf = << >> /\ c2s[c] = << >>
           /\ rstSrv[c] \/ EofAtSrv(c)
           /\ HandlerReturn(c, "err")
    /\ UNCHANGED << cfgVars, cliVars, rdVars, runHist >>

TeardownEntryRescan(mode) ==
    CASE mode = "CloseImmediately" -> "scan"
      [] mode = "SleepThenClose" -> "sleep"
      [] mode = "DrainThenClose" -> "drain"
      [] OTHER -> "shutdown"

TeardownEntryDetached(mode) ==
    CASE mode = "CloseImmediately" -> "close"
      [] mode = "SleepThenClose" -> "accept"
      [] mode = "DrainThenClose" -> "drain"
      [] OTHER -> "shutdown"

\* `match self.teardown_mode`: the first step of each branch.
TeardownEntry(mode) ==
    CASE mode = "CloseImmediately" -> "close"
      [] mode = "SleepThenClose" -> "sleep"
      [] mode = "DrainThenClose" -> "drain"
      [] OTHER -> "shutdown"

\* The argument of write.shutdown(..) in each shutdown branch.
ShutdownHow(mode) == IF mode = "ShutdownBothThenClose" THEN "both" ELSE "write"

AfterShutdownAlwaysDrain(mode) == "drain"

\* What follows a successful shutdown call in each shutdown branch.
AfterShutdown(mode) == IF mode = "ShutdownWriteThenDrain" THEN "drain" ELSE "close"

EchoFrameReencodedLE(buf) == << buf[4], buf[3], buf[2], buf[1] >>

\* write.write(&buf[..]): the bytes handed to the socket.
EchoFrame(buf) == buf

\* write.unbuffered() (the BufWriter is empty: nothing was written through
\* it, so into_inner cannot fail), write.write(&buf[..]), read.unbuffered()
\* (which discards whatever the BufReader still holds), and the dispatch on
\* the teardown mode.  The connection's send queue is empty when the four
\* bytes are written, so the write takes all of them or fails.
SrvEcho ==
    /\ srvPc = "echo"
    /\ LET c == srvConn IN
        \/ /\ rstSrv[c]
           /\ HandlerReturn(c, "err")
        \/ /\ ~rstSrv[c]
           /\ IF CliSockClosed(c)
              THEN /\ rstSrv' = [rstSrv EXCEPT ![c] = TRUE]
                   /\ s2c' = s2c
              ELSE /\ rstSrv' = rstSrv
                   /\ s2c' = [s2c EXCEPT ![c] = @ \o EchoFrame(srvBuf)]
           /\ srvEchoed' = [srvEchoed EXCEPT ![c] = EchoFrame(srvBuf)]
           /\ srvRdBuf' = << >>
           /\ srvPc' = TeardownEntry(teardown_mode)
           /\ UNCHANGED << c2s, rstCli, srvShut, hdlVars, srvConn, srvBuf, bytecount, handled,
                           wire, srvDrained, srvReadsAfterEcho, aborted >>
    /\ UNCHANGED << cfgVars, cliVars, rdVars, runHist >>

\* spin_sleep::sleep(self.sleep.into())
SrvSleep ==
    /\ srvPc = "sleep"
    /\ srvPc' = "close"
    /\ UNCHANGED << cfgVars, netVars, hdlVars, srvConn, srvRdBuf, srvBuf, bytecount,
                    handled, cliVars, rdVars, connHist, runHist >>

\* write.shutdown(net::Shutdown::Write | Both); fails (ENOTCONN) on a
\* connection that has been reset.
SrvShutdown ==
    /\ srvPc = "shutdown"
    /\ LET c == srvConn IN
        \/ /\ rstSrv[c]
           /\ HandlerReturn(c, "err")
        \/ /\ ~rstSrv[c]
           /\ srvShut' = [srvShut EXCEPT ![c] = ShutdownHow(teardown_mode)]
           /\ srvPc' = AfterShutdown(teardown_mode)
           /\ UNCHANGED << c2s, s2c, rstCli, rstSrv, hdlVars, srvConn, srvRdBuf, srvBuf,
                           bytecount, handled, connHist >>
    /\ UNCHANGED << cfgVars, cliVars, rdVars, runHist >>

DrainEndsNever(n) == FALSE

\* `Ok(0) => return Ok(bytecount)`: a read of n bytes ends the drain.
DrainEnds(n) == n = 0

DrainErrReturnsOk == "ok"

\* How the handler returns when a read of Server::drain fails:
\* `Err(e) => return Err(e).context(..)?`, and `self.drain(&mut read)?`.
DrainErrReturns == "err"

\* One conn.read(&mut buf) of Server::drain: Ok(0) returns the count, Ok(n)
\* adds n, Err returns the error out of the handler.
SrvDrainRead ==
    /\ srvPc = "drain"
    /\ LET c == srvConn IN
        \/ /\ c2s[c] # << >>
           /\ LET n == Min(Len(c2s[c]), DrainBufLen) IN
               /\ bytecount' = bytecount + n
               /\ c2s' = [c2s EXCEPT ![c] = Drop(@, n)]
           /\ srvReadsAfterEcho' = [srvReadsAfterEcho EXCEPT ![c] = @ + 1]
           /\ UNCHANGED << s2c, rstCli, rstSrv, srvShut, hdlVars, srvPc, srvConn,
                           srvRdBuf, srvBuf, handled, wire, srvEchoed, srvDrained, aborted >>
        \/ /\ c2s[c] = << >>
           /\ rstSrv[c]
           /\ HandlerReturn(c, DrainErrReturns)
        \/ /\ c2s[c] = << >>
           /\ ~rstSrv[c]
           /\ EofAtSrv(c)
           /\ DrainEnds(Len(c2s[c]))
           /\ srvDrained' = [srvDrained EXCEPT ![c] = bytecount]
           /\ srvReadsAfterEcho' = [srvReadsAfterEcho EXCEPT ![c] = @ + 1]
           /\ srvPc' = "close"
           /\ UNCHANGED << netVars, hdlVars, srvConn, srvRdBuf, srvBuf, bytecount, handled,
                           wire, srvEchoed, aborted >>
    /\ UNCHANGED << cfgVars, cliVars, rdVars, runHist >>

\* drop(read); drop(write); return Ok(())
SrvClose ==
    /\ srvPc = "close"
    /\ HandlerReturn(srvConn, "ok")
    /\ UNCHANGED << cfgVars, cliVars, rdVars, runHist >>

\* ------------------------------------------------------------------ client
\* The connection of the run in progress.
CliConn == runsDone + 1

\* A reset leaves one pending error (ECONNRESET) on the socket, which the
\* first call to meet it takes: a later write fails with EPIPE, a later read
\* ends the stream.
ReaderTookReset == rdPc \in {"store", "done"} /\ read_res.kind = "ConnectionReset"
WriterTookReset == write_err # NoErr

\* What one write call on the client's socket of c can do with `data`: fail
\* (the connection has been reset), take the bytes and lose them (the server's
\* socket is closed; the reset comes back, and may destroy what is queued for
\* the client), or take as many bytes as the peer's receive queue has room
\* for.  With no room the call blocks: no outcome.
CliWriteOutcomes(c, data) ==
    IF rstCli[c]
    THEN { [err |-> IF ReaderTookReset THEN "BrokenPipe" ELSE "ConnectionReset",
            n |-> 0, lost |-> FALSE, keep |-> TRUE] }
    ELSE IF SrvSockClosed(c)
    THEN { [err |-> NoErr, n |-> Len(data), lost |-> TRUE, keep |-> kp] : kp \in BOOLEAN }
    ELSE IF Len(c2s[c]) < ChanCap
    THEN { [err |-> NoErr, n |-> Min(ChanCap - Len(c2s[c]), Len(data)),
            lost |-> FALSE, keep |-> TRUE] }
    ELSE {}

\* The effect of outcome o on the network.
CliWriteNet(c, data, o) ==
    /\ c2s' = IF o.err = NoErr /\ ~o.lost
              THEN [c2s EXCEPT ![c] = @ \o Take(data, o.n)] ELSE c2s
    /\ wire' = [wire EXCEPT ![c] = @ \o Take(data, o.n)]
    /\ rstCli' = IF o.lost THEN [rstCli EXCEPT ![c] = TRUE] ELSE rstCli
    /\ s2c' = IF o.lost /\ ~o.keep THEN [s2c EXCEPT ![c] = << >>] ELSE s2c
    /\ UNCHANGED << rstSrv, srvShut, srvEchoed, srvDrained, srvReadsAfterEcho, aborted >>

\* Client::run: `for _ in 0..self.times` has runs left; single_run connects
\* (a refused connection panics in unwrap), splits the connection, and spawns
\* the response reader.
CliConnect ==
    /\ cliPc = "loop"
    /\ runsDone < times
    /\ IF ~Listening
       THEN /\ cliPc' = "panicked"
            /\ UNCHANGED << cliRead, cliWrite, rdPc >>
       ELSE /\ cliPc' = "poll"
            /\ cliRead' = [cliRead EXCEPT ![CliConn] = "open"]
            /\ cliWrite' = [cliWrite EXCEPT ![CliConn] = "open"]
            /\ rdPc' = "reading"
    /\ UNCHANGED << cfgVars, netVars, srvRead, srvWrite, srvVars, runsDone, i, stop_sending,
                    write_err, wrBuf, result, stats, read_res, connHist, runHist >>

\* Client::run: the loop is over; the table is printed.
CliFinish ==
    /\ cliPc = "loop"
    /\ runsDone = times
    /\ cliPc' = "finished"
    /\ UNCHANGED << cfgVars, netVars, hdlVars, srvVars, runsDone, i, stop_sending, write_err,
                    wrBuf, result, stats, rdVars, connHist, runHist >>

RangeExhaustedNever(idx) == FALSE

\* `for mut i in 0..send_numbers_count`: the range has no further index.
RangeExhausted(idx) == idx = SendNumbersCount

PollBreaksNever(stop) == FALSE

\* `if stop_sending.load(SeqCst) { break; }`
PollBreaks(stop) == stop

\* Head of the sender loop: the range is exhausted, or the stop signal is
\* polled.
CliPoll ==
    /\ cliPc = "poll"
    /\ IF RangeExhausted(i)
       THEN /\ cliPc' = "join"
            /\ lastPoll' = lastPoll
       ELSE /\ lastPoll' = IF stop_sending THEN "true" ELSE "false"
            /\ cliPc' = IF PollBreaks(stop_sending) THEN "join" ELSE "send"
    /\ UNCHANGED << cfgVars, netVars, hdlVars, srvVars, runsDone, i, stop_sending, write_err,
                    wrBuf, result, stats, rdVars, connHist, sendsAfterStop, sentAfterErr >>

AfterWriteErrContinue == "poll"

\* `if let Err(e) = write_res { write_err = Some(e); break; }`
AfterWriteErr == "join"

\* One write call on the socket while write_all is in progress.  `data` is
\* what is being pushed: the frame (unbuffered) or the BufWriter's buffer,
\* after which the frame is put into the emptied buffer.
CliPush(data) ==
    \E o \in CliWriteOutcomes(CliConn, data) :
        /\ CliWriteNet(CliConn, data, o)
        /\ IF o.err # NoErr
           THEN /\ write_err' = o.err
                /\ cliPc' = AfterWriteErr
                /\ wrBuf' = IF cliBuffered THEN data ELSE << >>
                /\ i' = i
           ELSE /\ write_err' = write_err
                /\ IF o.n = Len(data)
                   THEN /\ wrBuf' = IF cliBuffered THEN WriteU32(NumberAt(i)) ELSE << >>
                        /\ i' = i + 1
                        /\ cliPc' = "poll"
                   ELSE /\ wrBuf' = Drop(data, o.n)
                        /\ i' = i
                        /\ cliPc' = "flush"

\* BigEndian::write_u32(&mut buf, i); write.write_all(&buf[..]): its first
\* step.  A BufWriter with room appends the frame to its buffer; without room
\* it flushes the buffer to the socket first (BufCap > FrameLen, so a frame is
\* never written around the buffer).
CliSend ==
    /\ cliPc = "send"
    /\ sendsAfterStop' = sendsAfterStop + (IF stop_sending THEN 1 ELSE 0)
    /\ sentAfterErr' = (sentAfterErr \/ write_err # NoErr)
    /\ IF cliBuffered /\ Len(wrBuf) + FrameLen <= BufCap
       THEN /\ wrBuf' = wrBuf \o WriteU32(NumberAt(i))
            /\ i' = i + 1
            /\ cliPc' = "poll"
            /\ UNCHANGED << netVars, write_err, connHist >>
       ELSE CliPush(IF cliBuffered THEN wrBuf ELSE WriteU32(NumberAt(i)))
    /\ UNCHANGED << cfgVars, hdlVars, srvVars, runsDone, stop_sending, result, stats, rdVars,
                    lastPoll >>

\* write_all / flush_buf: a further write call for the bytes still pending.
CliFlush ==
    /\ cliPc = "flush"
    /\ CliPush(wrBuf)
    /\ UNCHANGED << cfgVars, hdlVars, srvVars, runsDone, stop_sending, result, stats, rdVars,
                    runHist >>

JoinReturnsAtOnce(pc) == TRUE

\* server_response_reader.join() returns when the reader thread, at position
\* pc, has terminated.
JoinReturns(pc) == pc = "done"

\* server_response_reader.join() returns once the reader has terminated; the
\* read error, if any, and the write error are classified.
CliJoin ==
    /\ cliPc = "join"
    /\ JoinReturns(rdPc)
    /\ result' = Classify(IF read_res.ok THEN NoErr ELSE read_res.kind, write_err)
    /\ cliPc' = "drop"
    /\ UNCHANGED << cfgVars, netVars, hdlVars, srvVars, runsDone, i, stop_sending, write_err,
                    wrBuf, stats, rdVars, connHist, runHist >>

\* single_run returns: `write` goes out of scope.  Dropping a BufWriter
\* flushes what it holds, ignoring errors; then the handle is closed, and with
\* it the client's socket (the reader dropped its handle when it ended).
\* Unread data in the socket's receive queue turns the close into a reset.
CliDrop ==
    /\ cliPc = "drop"
    /\ IF cliBuffered /\ wrBuf # << >>
       THEN /\ \E o \in CliWriteOutcomes(CliConn, wrBuf) :
                 /\ CliWriteNet(CliConn, wrBuf, o)
                 /\ wrBuf' = IF o.err # NoErr THEN << >> ELSE Drop(wrBuf, o.n)
            /\ UNCHANGED << hdlVars, cliPc >>
       ELSE LET c == CliConn
                gone == SrvSockClosed(c)
                reset == s2c[c] # << >> /\ ~gone
            IN  /\ cliWrite' = [cliWrite EXCEPT ![c] = "closed"]
                /\ cliPc' = "tally"
                /\ s2c' = [s2c EXCEPT ![c] = << >>]
                /\ rstSrv' = [rstSrv EXCEPT ![c] = ~gone /\ (@ \/ reset)]
                /\ \E keep \in BOOLEAN :
                     c2s' = IF reset /\ ~keep THEN [c2s EXCEPT ![c] = << >>] ELSE c2s
                /\ rstCli' = ForgetIf(rstCli, c, gone, FALSE)
                /\ srvShut' = ForgetIf(srvShut, c, gone, "none")
                /\ ForgetHistory(c, gone)
                /\ UNCHANGED << cliRead, srvRead, srvWrite, wrBuf >>
    /\ UNCHANGED << cfgVars, srvVars, runsDone, i, stop_sending, write_err, result, stats,
                    rdVars, runHist >>

\* Client::run: the run's result is counted; the locals of the run are gone.
CliTally ==
    /\ cliPc = "tally"
    /\ stats' = StatsRecord(stats, result)
    /\ runsDone' = runsDone + 1
    /\ cliPc' = "loop"
    /\ i' = 0
    /\ stop_sending' = FALSE
    /\ write_err' = NoErr
    /\ wrBuf' = << >>
    /\ result' = NoResult
    /\ rdPc' = "none"
    /\ read_res' = [ok |-> FALSE, val |-> 0, kind |-> NoErr]
    /\ sendsAfterStop' = 0
    /\ lastPoll' = "none"
    /\ sentAfterErr' = FALSE
    /\ UNCHANGED << cfgVars, netVars, hdlVars, srvVars, connHist >>

\* ---------------------------------------------------------- response reader
\* read.read_exact(&mut buf[..]).map(|_| BigEndian::read_u32(&buf[..])): four
\* bytes are there, or the connection was reset, or the stream ended short.
RdRead ==
    /\ rdPc = "reading"
    /\ LET c == CliConn IN
        \/ /\ Len(s2c[c]) >= FrameLen
           /\ read_res' = [ok |-> TRUE, val |-> ReadU32(Take(s2c[c], FrameLen)), kind |-> NoErr]
           /\ s2c' = [s2c EXCEPT ![c] = Drop(@, FrameLen)]
        \/ /\ Len(s2c[c]) < FrameLen
           /\ rstCli[c]
           /\ read_res' = [ok |-> FALSE, val |-> 0,
                           kind |-> IF WriterTookReset THEN "UnexpectedEof"
                                    ELSE "ConnectionReset"]
           /\ s2c' = s2c
        \/ /\ Len(s2c[c]) < FrameLen
           /\ ~rstCli[c]
           /\ EofAtCli(c)
           /\ read_res' = [ok |-> FALSE, val |-> 0, kind |-> "UnexpectedEof"]
           /\ s2c' = [s2c EXCEPT ![c] = << >>]
    /\ rdPc' = "store"
    /\ UNCHANGED << cfgVars, c2s, rstCli, rstSrv, srvShut, hdlVars, srvVars, cliVars,
                    connHist, runHist >>

StopAfterReadOkOnly(res) == res.ok

\* The value the reader stores into stop_sending once its read has returned
\* `res`: true, whether the read succeeded or failed.
StopAfterRead(res) == TRUE

\* stop_sending.store(true, SeqCst); the closure returns and drops `read`.
RdStore ==
    /\ rdPc = "store"
    /\ stop_sending' = StopAfterRead(read_res)
    /\ rdPc' = "done"
    /\ cliRead' = [cliRead EXCEPT ![CliConn] = "closed"]
    /\ UNCHANGED << cfgVars, netVars, cliWrite, srvRead, srvWrite, srvVars, cliPc, runsDone, i,
                    write_err, wrBuf, result, stats, read_res, connHist, runHist >>

\* ------------------------------------------------------------- environment
\* A live connection is aborted from outside (the network fails, a peer is
\* killed): both ends are reset and what was queued is lost.
NetFault ==
    /\ \E c \in Conns :
        /\ Established(c)
        /\ ~CliSockClosed(c)
        /\ ~SrvSockClosed(c)
        /\ ~rstCli[c] /\ ~rstSrv[c]
        /\ rstCli' = [rstCli EXCEPT ![c] = TRUE]
        /\ rstSrv' = [rstSrv EXCEPT ![c] = TRUE]
        /\ c2s' = [c2s EXCEPT ![c] = << >>]
        /\ s2c' = [s2c EXCEPT ![c] = << >>]
        /\ aborted' = [aborted EXCEPT ![c] = TRUE]
    /\ UNCHANGED << cfgVars, srvShut, hdlVars, srvVars, cliVars, rdVars, wire, srvEchoed,
                    srvDrained, srvReadsAfterEcho, runHist >>

\* An arbitrary peer, in place of the client, on connection 1: it sends any
\* frames, takes what the server sends, and closes.
PeerSend ==
    /\ cliPc = "peer"
    /\ ~rstCli[1]
    /\ ~SrvSockClosed(1)
    /\ Len(wire[1]) < FrameLen * MaxPeerFrames
    /\ Len(c2s[1]) + FrameLen <= ChanCap
    /\ \E v \in PeerNumbers :
        /\ c2s' = [c2s EXCEPT ![1] = @ \o WriteU32(v)]
        /\ wire' = [wire EXCEPT ![1] = @ \o WriteU32(v)]
    /\ UNCHANGED << cfgVars, s2c, rstCli, rstSrv, srvShut, hdlVars, srvVars, cliVars, rdVars,
                    srvEchoed, srvDrained, srvReadsAfterEcho, aborted, runHist >>

PeerRecv ==
    /\ cliPc = "peer"
    /\ s2c[1] # << >>
    /\ s2c' = [s2c EXCEPT ![1] = << >>]
    /\ UNCHANGED << cfgVars, c2s, rstCli, rstSrv, srvShut, hdlVars, srvVars, cliVars, rdVars,
                    connHist, runHist >>

PeerClose ==
    /\ cliPc = "peer"
    /\ cliPc' = "peerdone"
    /\ cliRead' = [cliRead EXCEPT ![1] = "closed"]
    /\ cliWrite' = [cliWrite EXCEPT ![1] = "closed"]
    /\ LET gone == SrvSockClosed(1)
           reset == s2c[1] # << >> /\ ~gone
       IN  /\ s2c' = [s2c EXCEPT ![1] = << >>]
           /\ rstSrv' = [rstSrv EXCEPT ![1] = ~gone /\ (@ \/ reset)]
           /\ \E keep \in BOOLEAN :
                c2s' = IF reset /\ ~keep THEN [c2s EXCEPT ![1] = << >>] ELSE c2s
           /\ rstCli' = ForgetIf(rstCli, 1, gone, FALSE)
           /\ srvShut' = ForgetIf(srvShut, 1, gone, "none")
           /\ ForgetHistory(1, gone)
    /\ UNCHANGED << cfgVars, srvRead, srvWrite, srvVars, runsDone, i, stop_sending, write_err,
                    wrBuf, result, stats, rdVars, runHist >>

ServerStep == SrvAccept \/ SrvScanRead \/ SrvEcho \/ SrvSleep \/ SrvShutdown
              \/ SrvDrainRead \/ SrvClose
ClientStep == CliConnect \/ CliFinish \/ CliPoll \/ CliSend \/ CliFlush \/ CliJoin
              \/ CliDrop \/ CliTally
ReaderStep == RdRead \/ RdStore

Next ==
    \/ SrvAccept \/ SrvScanRead \/ SrvEcho \/ SrvSleep \/ SrvShutdown
    \/ SrvDrainRead \/ SrvClose
    \/ CliConnect \/ CliFinish \/ CliPoll \/ CliSend \/ CliFlush \/ CliJoin
    \/ CliDrop \/ CliTally
    \/ RdRead \/ RdStore
    \/ NetFault

\* Server and client, any configuration, up to MaxTimes runs.
Spec == Init /\ [][Next]_vars

\* One client run.
InitOne == Init /\ times = 1

SpecOne == InitOne /\ [][Next]_vars

\* One client run; each thread that can take a step eventually takes one
\* (the operating system schedules every runnable thread).  Faults are not
\* owed.
FairSpecOne ==
    /\ InitOne
    /\ [][Next]_vars
    /\ WF_vars(ServerStep)
    /\ WF_vars(ClientStep)
    /\ WF_vars(ReaderStep)

\* Repeated runs against a server in shutdown-write-then-close mode, which
\* neither sleeps nor drains.
InitRepeat == Init /\ teardown_mode = "ShutdownWriteThenClose"

NextRepeat ==
    \/ SrvAccept \/ SrvScanRead \/ SrvEcho \/ SrvShutdown \/ SrvClose
    \/ CliConnect \/ CliFinish \/ CliPoll \/ CliSend \/ CliFlush \/ CliJoin
    \/ CliDrop \/ CliTally
    \/ RdRead \/ RdStore
    \/ NetFault

SpecRepeat == InitRepeat /\ [][NextRepeat]_vars

\* MaxTimes client runs, one after the other, against a server in a mode whose
\* teardown takes time (a sleep, or a drain up to the client's end-of-stream).
DelayModes == {"SleepThenClose", "ShutdownWriteThenDrain"}

InitSerial == Init /\ times = MaxTimes /\ teardown_mode \in DelayModes

SpecSerial == InitSerial /\ [][Next]_vars

\* The server from its start, with accepts that may fail; one client run.
InitListen ==
    /\ InitCommon
    /\ srvPc = "bind"
    /\ times = 1
    /\ cliPc = "loop"
    /\ cliRead = None /\ cliWrite = None

NextListen ==
    \/ SrvBind \/ SrvAcceptErr \/ SrvAcceptErrLogged
    \/ SrvAccept \/ SrvScanRead \/ SrvEcho \/ SrvSleep \/ SrvShutdown
    \/ SrvDrainRead \/ SrvClose
    \/ CliConnect \/ CliFinish \/ CliPoll \/ CliSend \/ CliFlush \/ CliJoin
    \/ CliDrop \/ CliTally
    \/ RdRead \/ RdStore
    \/ NetFault

SpecListen == InitListen /\ [][NextListen]_vars

\* The server against an arbitrary peer connected to it.
InitPeer ==
    /\ InitCommon
    /\ srvPc = "accept"
    /\ times = 1
    /\ cliBuffered = FALSE
    /\ cliPc = "peer"
    /\ cliRead = [c \in Conns |-> IF c = 1 THEN "open" ELSE "none"]
    /\ cliWrite = [c \in Conns |-> IF c = 1 THEN "open" ELSE "none"]

NextPeer ==
    \/ SrvAccept \/ SrvScanRead \/ SrvEcho \/ SrvSleep \/ SrvShutdown
    \/ SrvDrainRead \/ SrvClose
    \/ PeerSend \/ PeerRecv \/ PeerClose
    \/ NetFault

SpecPeer == InitPeer /\ [][NextPeer]_vars

\* ------------------------------------------------------------ properties
ShutdownCloseModes == {"ShutdownWriteThenClose", "ShutdownBothThenClose"}
DrainModes == {"DrainThenClose", "ShutdownWriteThenDrain"}

\* The first odd number among the complete frames of byte stream w, or -1.
RECURSIVE FirstOdd(_)
FirstOdd(w) ==
    IF Len(w) < FrameLen THEN -1
    ELSE IF ReadU32(Take(w, FrameLen)) % 2 = 1 THEN ReadU32(Take(w, FrameLen))
    ELSE FirstOdd(Drop(w, FrameLen))

\* The number of bytes of w that follow its first odd frame (0 without one).
RECURSIVE BytesAfterFirstOdd(_)
BytesAfterFirstOdd(w) ==
    IF Len(w) < FrameLen THEN 0
    ELSE IF ReadU32(Take(w, FrameLen)) % 2 = 1 THEN Len(w) - FrameLen
    ELSE BytesAfterFirstOdd(Drop(w, FrameLen))

\* C1: whenever the handler of a connection has returned, by the normal path
\* or by any error path, in any teardown mode, both the read handle and the
\* write handle of that connection are closed.
C1_HandlesReleased ==
    \A c \in Conns :
        handled[c] \in {"ok", "err"} => srvRead[c] = "closed" /\ srvWrite[c] = "closed"

\* The handler failed in its teardown phase (after the echo), and has returned.
C1_Witness ==
    \E c \in Conns :
        /\ handled[c] = "err"
        /\ srvEchoed[c] # << >>
        /\ teardown_mode \in DrainModes
        /\ srvRead[c] = "closed" /\ srvWrite[c] = "closed"

\* C2 (as claimed): after the handler of a connection has failed, the accept
\* loop of the server is still running.
C2_AcceptLoopSurvives ==
    (\E c \in Conns : handled[c] = "err") => srvPc # "exited"

\* C3: whatever the server writes on a connection is exactly the four
\* big-endian bytes of the first odd number the peer sent on it, and nothing
\* else reaches the peer; an even number is never echoed.
C3_EchoIsFirstOdd ==
    \A c \in Conns :
        /\ srvEchoed[c] # << >> =>
              /\ FirstOdd(wire[c]) # -1
              /\ srvEchoed[c] = WriteU32(FirstOdd(wire[c]))
        /\ s2c[c] # << >> => s2c[c] = WriteU32(FirstOdd(wire[c]))

\* A buffered server has echoed an odd number that followed an even one whose
\* bytes would read as odd in the other byte order.
C3_Witness ==
    /\ srvBuffered
    /\ Len(wire[1]) >= 2 * FrameLen
    /\ Take(wire[1], FrameLen) = WriteU32(16777216)
    /\ srvEchoed[1] = WriteU32(65537)
    /\ s2c[1] = WriteU32(65537)

\* C4 (as claimed): the count a drain reports equals the number of bytes the
\* peer sent after the odd number, buffered or unbuffered.
C4_DrainCountsAllBytes ==
    \A c \in Conns :
        srvDrained[c] # -1 => srvDrained[c] = BytesAfterFirstOdd(wire[c])

\* C5 (as claimed): close-immediately, one run, no fault on the connection:
\* the outcome, when the run classifies it, is ResponseCorrect and the value
\* read is 23.
C5_AlwaysResponseCorrect ==
    (teardown_mode = "CloseImmediately" /\ times = 1 /\ cliPc = "drop" /\ ~aborted[1])
        => (result.tag = "ResponseCorrect" /\ read_res.ok /\ read_res.val = OddNumber)

\* C5 (amended): close-immediately, one run: whenever the read of the response
\* succeeds the value read is 23, and the outcome is ResponseCorrect exactly
\* when neither the read nor a write failed.
C5_CorrectWhenNoError ==
    (teardown_mode = "CloseImmediately" /\ times = 1 /\ result # NoResult)
        => /\ read_res.ok => read_res.val = OddNumber
           /\ result.tag = "ResponseCorrect" <=> (read_res.ok /\ write_err = NoErr)

C5_Witness ==
    /\ teardown_mode = "CloseImmediately"
    /\ times = 1
    /\ result.tag = "ResponseCorrect"
    /\ read_res.ok /\ read_res.val = OddNumber

\* C6: in a run, at most one send begins after the stop signal has been set,
\* and a send is only ever under way after a poll that returned false.
C6_BoundedOvershoot ==
    /\ sendsAfterStop <= 1
    /\ cliPc \in {"send", "flush"} => lastPoll = "false"

\* A send began after the store: its poll preceded the store.
C6_Witness == sendsAfterStop = 1 /\ stop_sending /\ lastPoll = "false"

\* C7: after a write has failed no further send begins, and the run goes on to
\* a classified result.
C7_NoBlockAfterWriteError ==
    /\ [](~sentAfterErr)
    /\ (write_err # NoErr) ~> (result # NoResult)

C7_Witness == write_err # NoErr /\ result.tag \in {"WriteNumberError", "BothErr"}

\* C8: in the shutdown-then-close modes the handler never reads after the
\* echo, and a shutdown call that returns successfully is followed directly by
\* the close.
C8_NoDrainAfterShutdown ==
    /\ [](teardown_mode \in ShutdownCloseModes =>
            \A c \in Conns : srvReadsAfterEcho[c] = 0 /\ srvDrained[c] = -1)
    /\ [][(teardown_mode \in ShutdownCloseModes /\ srvPc = "shutdown"
             /\ srvPc' \notin {"shutdown", "exited"}) => srvPc' = "close"]_vars

C8_Witness ==
    /\ teardown_mode = "ShutdownBothThenClose"
    /\ srvPc = "close"
    /\ srvShut[srvConn] = "both"

\* C9: the outcome of a run is the one variant its pair of results selects,
\* and it carries the read kind and the write kind each in its own field.
C9_Classification ==
    result # NoResult =>
        LET r == IF read_res.ok THEN NoErr ELSE read_res.kind
            w == write_err
        IN  /\ result \in SingleRunResults
            /\ result.tag = "ResponseCorrect" <=> (r = NoErr /\ w = NoErr)
            /\ result.tag = "ReadResponseError" <=> (r # NoErr /\ w = NoErr)
            /\ result.tag = "WriteNumberError" <=> (r = NoErr /\ w # NoErr)
            /\ result.tag = "BothErr" <=> (r # NoErr /\ w # NoErr)
            /\ result.read = r
            /\ result.write = w

C9_Witness ==
    /\ result.tag = "BothErr"
    /\ result.read = "UnexpectedEof"
    /\ result.write = "ConnectionReset"
    /\ read_res.kind = "UnexpectedEof"
    /\ write_err = "ConnectionReset"

C11_OnlyBindAborts ==
    /\ srvPc = "accepterr" => Listening
    /\ srvPc \in {"bindfailed", "exited"} => (srvPc = "bindfailed" /\ srvConn = 0)

\* C12: the server runs at most one handler at a time, and makes the next
\* accept only when the handler of the connection accepted before has
\* returned, its teardown (sleep, drain) over and both its handles closed.
C12_OneConnectionAtATime ==
    /\ [](/\ Cardinality({c \in Conns : handled[c] = "running"}) <= 1
          /\ \A c \in Conns :
                handled[c] = "running" =>
                    srvConn = c /\ srvPc \notin {"accept", "accepterr", "exited"}
          /\ srvPc \in {"accept", "accepterr"} =>
                \A c \in Conns : Accepted(c) => handled[c] = "ok" /\ SrvSockClosed(c))
    /\ [][srvConn' # srvConn =>
            /\ srvPc = "accept"
            /\ srvConn' = srvConn + 1
            /\ srvConn # 0 => handled[srvConn] = "ok" /\ SrvSockClosed(srvConn)]_vars

\* The next connection waits in the backlog while the handler of the first is
\* in its teardown delay.
C12_Witness ==
    /\ Established(2) /\ ~Accepted(2)
    /\ handled[1] = "running"
    /\ srvPc \in {"sleep", "drain"}

\* C13: in a run the stop signal is false until the reader stores it, the
\* store is the only write, it goes from false to true, it follows the
\* reader's read (successful or failed) and precedes the reader's end, and
\* the signal stays true for the rest of the run.
C13_StopSignalOneShot ==
    /\ [](/\ rdPc \in {"none", "reading", "store"} => ~stop_sending
          /\ rdPc = "done" => stop_sending)
    /\ [][stop_sending' # stop_sending =>
            \/ /\ ~stop_sending /\ stop_sending'
               /\ rdPc = "store" /\ rdPc' = "done"
               /\ read_res.ok \/ read_res.kind # NoErr
            \/ cliPc = "tally"]_vars

\* The signal was set on the error path.
C13_Witness == stop_sending /\ rdPc = "done" /\ ~read_res.ok /\ cliPc \in {"poll", "send"}

\* C14: the calling context reaches the join only after the sender's final
\* action (budget exhausted, stop signal observed, or write error), and the
\* outcome is classified only once the reader has terminated, from the
\* reader's result and the write result.
C14_JoinBeforeClassify ==
    /\ [](/\ cliPc \in {"join", "drop", "tally"} =>
                i = SendNumbersCount \/ lastPoll = "true" \/ write_err # NoErr
          /\ result # NoResult =>
                /\ rdPc = "done"
                /\ result = Classify(IF read_res.ok THEN NoErr ELSE read_res.kind, write_err))
    /\ [][result' # result /\ result' # NoResult => cliPc = "join" /\ rdPc = "done"]_vars

\* The calling context waits at the join, its budget spent, while the reader
\* is still blocked in its read.
C14_Witness == cliPc = "join" /\ rdPc = "reading" /\ i = SendNumbersCount

\* The moves of the server between the phases of a connection: scanning, then
\* the echo, then the teardown of the mode, then the close; a failure leaves
\* from scanning, the echo, a shutdown or a drain.
PhaseOrder ==
    { <<"accept", "scan">>,
      <<"scan", "echo">>, <<"scan", "exited">>,
      <<"echo", "sleep">>, <<"echo", "shutdown">>, <<"echo", "drain">>, <<"echo", "close">>,
      <<"echo", "exited">>,
      <<"sleep", "close">>,
      <<"shutdown", "drain">>, <<"shutdown", "close">>, <<"shutdown", "exited">>,
      <<"drain", "close">>, <<"drain", "exited">>,
      <<"close", "accept">> }

\* C15: the handler goes through its phases in the order scanning, echoing,
\* teardown, closed.  Nothing is written before an odd number was read, the
\* response is written once and is one frame, no sleep, shutdown or drain
\* comes before the echo, and a handler that ends while scanning fails and
\* has written nothing.
C15_PhaseOrder ==
    /\ [](\A c \in Conns :
            /\ (s2c[c] # << >> \/ srvEchoed[c] # << >>) => FirstOdd(wire[c]) # -1
            /\ Len(s2c[c]) <= FrameLen
            /\ (srvShut[c] # "none" \/ srvReadsAfterEcho[c] > 0 \/ srvDrained[c] # -1)
                  => Len(srvEchoed[c]) = FrameLen
            /\ (srvConn = c /\ srvPc \in {"sleep", "shutdown", "drain", "close"})
                  => Len(srvEchoed[c]) = FrameLen)
    /\ [][/\ srvPc' # srvPc => << srvPc, srvPc' >> \in PhaseOrder
          /\ \A c \in Conns :
                srvEchoed'[c] # srvEchoed[c] =>
                    \/ srvEchoed[c] = << >> /\ srvPc = "echo" /\ srvConn = c
                    \/ srvEchoed'[c] = << >> /\ SrvSockClosed(c)'
          /\ (srvPc = "scan" /\ srvPc' # "scan" /\ srvPc' # "echo") =>
                /\ handled'[srvConn] = "err"
                /\ srvEchoed[srvConn] = << >>
                /\ s2c[srvConn] = << >> /\ s2c'[srvConn] = << >>]_vars

\* The handler has been through scanning, the echo and a shutdown and a drain
\* that counted bytes, and is about to close.
C15_Witness ==
    /\ teardown_mode = "ShutdownWriteThenDrain"
    /\ srvPc = "close"
    /\ srvEchoed[1] = WriteU32(OddNumber)
    /\ srvDrained[1] > 0

\* C16: a drain ends either on a read of zero bytes at the ordinary end of the
\* stream, and then reports the bytes it has counted and the handler goes on
\* to the close, or on an I/O error (the connection was reset), and then the
\* handler fails and no count is reported.
C16_DrainEndOrFail ==
    /\ [](\A c \in Conns : srvDrained[c] # -1 => handled[c] # "err")
    /\ [][(srvPc = "drain" /\ srvPc' # "drain") =>
            LET c == srvConn IN
              \/ /\ srvPc' = "close"
                 /\ ~rstSrv[c] /\ c2s[c] = << >> /\ EofAtSrv(c)
                 /\ srvDrained'[c] = bytecount
                 /\ handled'[c] = "running"
              \/ /\ srvPc' = "exited"
                 /\ rstSrv[c]
                 /\ srvDrained[c] = -1
                 /\ handled'[c] = "err"]_vars

\* A drain that had counted bytes was ended by a reset: the handler failed.
C16_Witness ==
    /\ teardown_mode \in DrainModes
    /\ handled[1] = "err"
    /\ srvReadsAfterEcho[1] > 0
    /\ srvDrained[1] = -1
    /\ aborted[1]

\* C17: a sender loop that ended on observing the stop signal has recorded no
\* write error, and the run's outcome is then ResponseCorrect when the read
\* succeeded and ReadResponseError when it failed.
C17_StopIsNotAWriteError ==
    lastPoll = "true" =>
        /\ write_err = NoErr
        /\ result # NoResult =>
              /\ result.tag \in {"ResponseCorrect", "ReadResponseError"}
              /\ result.tag = "ResponseCorrect" <=> read_res.ok
              /\ result.write = NoErr

\* The loop ended on the stop signal after a failed read.
C17_Witness ==
    /\ lastPoll = "true"
    /\ i < SendNumbersCount
    /\ result.tag = "ReadResponseError"

\* The sender loop is at its head, in a send, or in the write calls of one.
InSenderLoop == cliPc \in {"poll", "send", "flush"}

\* C18: the sender loop makes at most send_numbers_count iterations, goes to
\* the join when the range is exhausted, and is always left eventually.
C18_SenderLoopTerminates ==
    /\ [](i <= SendNumbersCount)
    /\ [][(cliPc = "poll" /\ i = SendNumbersCount /\ cliPc' # "poll") => cliPc' = "join"]_vars
    /\ [][(InSenderLoop /\ i' # i) => i' = i + 1]_vars
    /\ InSenderLoop ~> ~InSenderLoop

\* The loop ran out of its budget: no stop signal, no write error.
C18_Witness ==
    /\ cliPc = "join"
    /\ i = SendNumbersCount
    /\ ~stop_sending
    /\ write_err = NoErr

\* The k-th frame (from 0) of byte stream w.
FrameOf(w, k) == ReadU32(SubSeq(w, FrameLen * k + 1, FrameLen * k + FrameLen))

\* C19: of the numbers a client run has written to its connection, the one
\* at the midpoint index is 23 and every other one is its index with the low
\* bit cleared, so even; the first odd number on the connection, and so the
\* only number a server echoes to a client run, is 23.
C19_OnlyMidpointOdd ==
    \A c \in Conns :
        /\ \A k \in 0 .. (Len(wire[c]) \div FrameLen) - 1 :
              IF k = SendNumbersCount \div 2
              THEN FrameOf(wire[c], k) = 23
              ELSE FrameOf(wire[c], k) % 2 = 0 /\ FrameOf(wire[c], k) \in {k, k - 1}
        /\ FirstOdd(wire[c]) \in {-1, 23}
        /\ srvEchoed[c] \in {<< >>, WriteU32(23)}

\* A run has written its whole budget of numbers.
C19_Witness ==
    /\ Len(wire[1]) = FrameLen * SendNumbersCount
    /\ FirstOdd(wire[1]) = 23
    /\ FrameOf(wire[1], SendNumbersCount - 1) % 2 = 0

\* C20: in every teardown mode, with every runnable thread scheduled, the
\* handler of the run's connection eventually returns and the run eventually
\* returns a classified result; a server that drains always leaves the drain,
\* and a calling context that waits at the join always gets past it.
C20_NoDeadlock ==
    /\ <>(handled[1] \in {"ok", "err"})
    /\ <>(result # NoResult)
    /\ (srvPc = "drain") ~> (srvPc # "drain")
    /\ (cliPc = "join") ~> (cliPc # "join")

\* In a drain mode the handler has returned normally and the run has its
\* result: the server had waited for the client's end-of-stream, the client
\* for its reader.
C20_Witness ==
    /\ teardown_mode \in DrainModes
    /\ handled[1] = "ok"
    /\ srvPc = "accept"
    /\ cliPc = "tally"
    /\ result.tag = "ResponseCorrect"

=============================================================================
